---- MODULE Spec2Model ----
(***************************************************************************)
(* State-machine model of the nerf-turret repository.                      *)
(*                                                                         *)
(* The repository holds two generations of the same rig:                   *)
(*   - encoder.py, stepper.py, turretd.py, encoderctl.py: the TCP daemon   *)
(*     (turretd) and its command line tools;                               *)
(*   - server/stepper.py, server/__main__.py, msgs.py: the UDP server and  *)
(*     its stepper library.                                                *)
(* Each program is modelled with one action per step of its code; `prog`   *)
(* says which program the behaviour is a run of.                           *)
(*                                                                         *)
(* Angles are exact rationals in the source's cases (r*360/4096, 279.76,   *)
(* 1.8); the model counts them in ticks of 1/12800 degree, in which all of *)
(* them are integers.                                                      *)
(***************************************************************************)
EXTENDS Integers, Sequences, FiniteSets, TLC

VARIABLES
    prog,       \* which program runs: "read", "codec", "turretd", "server", "bench", "encoderctl"
    pc,         \* position in the program's code
    rig,        \* the mechanics: "free" (a pulse turns the shaft) or "stuck"
    rd,         \* "read": the angle accessors applied to one register value;
                \* "codec": one message through encode, decode and the classifiers
    \* ---- turretd.py: the Turret and its actuators (stepper.py, gpiozero)
    conn,       \* the number of accepted connections not yet closed
    msg,        \* the message being handled
    cur,        \* the variant whose try block is running
    shots,      \* Turret.shots
    elev,       \* elev_servo.angle (degrees)
    trigger,    \* trigger_servo.angle (degrees)
    relay,      \* motor_relay is on
    dirA,       \* Stepper._dir
    dirPinA,    \* Stepper._dir_pin is on
    stepPinA,   \* Stepper._step_pin is on
    shaftA,     \* what Encoder.angle reads now (ticks)
    sh,         \* the running shoot call: n, the loop index, what it did
    h,          \* what the handling of msg did so far (history)
    mv,         \* the running move_to: target, tolerance, what its steps did
    \* ---- the I2C multiplexer (encoder.py, server/stepper.py) and server/
    muxReg,     \* the multiplexer's control register (the last byte written to it)
    hasGpio,    \* server/stepper.py: _has_gpio
    dirB,       \* server Stepper._dir, per motor
    dirPinB,    \* the level of each motor's direction pin
    rawB,       \* the raw angle register of the encoder on each channel
    shotsB,     \* server/__main__.py: shots
    cl          \* the running library call: what, on which port, how it ended

(***************************************************************************)
(* Units                                                                   *)
(***************************************************************************)
TicksPerDeg == 512 * 25
Deg(n) == n * TicksPerDeg
Full == Deg(360)
Abs(x) == IF x < 0 THEN -x ELSE x

\* The width of the raw angle register (AS5600: 12 bits).
RawRange == 4096

(***************************************************************************)
(* encoder.py                                                              *)
(***************************************************************************)
\* Encoder.angle: theta = (raw_angle * 360) / 4096; return theta % 360
\* (a full turn is a whole number of ticks per register count, so the division
\* is exact)
EncoderAngle(raw) == (raw * (Full \div RawRange)) % Full

(***************************************************************************)
(* stepper.py                                                              *)
(***************************************************************************)
\* Stepper.angle (getter): return self._enc.angle - self._offset
StepperAngle(encAngle, offset) == encAngle - offset

(***************************************************************************)
(* server/stepper.py                                                       *)
(***************************************************************************)
\* Encoder.angle: offset_angle = raw_angle - self.zero; return offset_angle % 360
\* (the raw register value is taken as degrees)
ServerEncoderAngle(raw, zero) == (Deg(raw) - zero) % Full

(***************************************************************************)
(* turretd.py: configuration (main) and the bounded inputs                 *)
(***************************************************************************)
\* main: BaseStepper(..., offset=279.76)
OffsetA == (27976 * TicksPerDeg) \div 100
\* Stepper.__init__: step_deg = 1.8
StepDeg == (18 * TicksPerDeg) \div 10
\* main: AngularServo(min_angle=-90, max_angle=90)
ElevMin == -90
ElevMax == 90
\* Turret.shoot: the trigger servo's extended and rest angles
TriggerFire == -33
TriggerRest == 0

\* Bounds on shots (the counter is unbounded in the code, both ways).
MaxShots == 3
\* How far below zero the counter is followed (times and count may be negative).
MaxDebt == 1
\* The counter stays in the range the checked runs cover.
ShotsInRange(n) == 0 - MaxDebt <= n /\ n <= MaxShots
\* Register values the shaft may show at start: stepper angles of about 0 and 45.
InitRawsA == {3183, 3695}
\* Targets a Move may carry: 0 and 45 are in the axis' range [-279.76, 80.24),
\* 350 is not; the last is the very angle the shaft reads at register 3183.
MoveBases == {Deg(0), Deg(45), Deg(350), StepperAngle(EncoderAngle(3183), OffsetA)}
\* Elevations a Move may carry: 100 is outside the servo's range.
MoveElevs == {10, 100}
ShootTimes == {-1, 0, 1, 2}

Variants == {"Move", "Shoot", "RequestStatus", "Reset"}

NoMsg == [shapes |-> {}, base_angle |-> 0, elev_angle |-> 0, times |-> 0]
\* A received frame, by the variants it decodes as and the fields they carry.
Messages ==
    [shapes : {{"Move"}}, base_angle : MoveBases, elev_angle : MoveElevs, times : {0}]
    \cup [shapes : {{"Shoot"}}, base_angle : {0}, elev_angle : {0}, times : ShootTimes]
    \cup [shapes : {{"RequestStatus"}, {"Reset"}, {}},
          base_angle : {0}, elev_angle : {0}, times : {0}]
    \cup [shapes : {{"Move", "Shoot"}}, base_angle : {Deg(45)},
          elev_angle : MoveElevs, times : {1}]

\* turret_client.msgs.decode(msg_bytes, cls): succeeds when the frame has the
\* required fields of cls.
Decodes(m, variant) == variant \in m.shapes

NoResp == [type |-> "none"]
AckMsg == [type |-> "Ack"]
StatusMsg(b, e, s) == [type |-> "Status", base_angle |-> b, elev_angle |-> e, shots |-> s]

(***************************************************************************)
(* turretd.py: Turret                                                      *)
(***************************************************************************)
\* Turret.base_angle: return self.base_stepper.angle
BaseAngle == StepperAngle(shaftA, OffsetA)

\* gpiozero AngularServo.angle setter: a value outside [min_angle, max_angle]
\* raises OutputDeviceBadValue.
ServoAccepts(a) == ElevMin <= a /\ a <= ElevMax

\* What the rest of the world sees of the turret.
TurretState ==
    [shots |-> shots, elev |-> elev, trigger |-> trigger, relay |-> relay,
     dir |-> dirA, dirPin |-> dirPinA, stepPin |-> stepPinA, shaft |-> shaftA]

NoShoot == [n |-> 0, i |-> 0, on |-> 0, off |-> 0, cycles |-> 0, shots0 |-> 0,
            log |-> <<>>]
NoMove == [state |-> "none", target |-> 0, tol |-> 0, gran |-> 0, start |-> 0,
           ideal |-> TRUE, steps |-> 0, warned |-> FALSE,
           asg |-> "none", dirw |-> 0, pulses |-> 0, first |-> "none"]
NoSnap == [shots |-> 0, elev |-> 0, trigger |-> 0, relay |-> FALSE,
           dir |-> "cw", dirPin |-> FALSE, stepPin |-> FALSE, shaft |-> 0]
NoHist == [executed |-> {}, late |-> FALSE, pulsed |-> FALSE, pinw |-> FALSE, ret |-> NoResp,
           sent |-> <<>>, snap |-> NoSnap, prev |-> "none", ioerr |-> FALSE]

turretVars == <<shots, elev, trigger, relay>>
stepperAVars == <<dirA, dirPinA, stepPinA, shaftA>>
sessionVars == <<conn, msg, cur, h>>
serverVars == <<muxReg, hasGpio, dirB, dirPinB, rawB, shotsB, cl>>
readVars == <<rd, serverVars>>

(***************************************************************************)
(* stepper.py: Stepper                                                     *)
(***************************************************************************)
\* The mechanics: the shaft turns with the pulses, or it is stuck (a stalled
\* motor, a loose coupling, an unpowered driver).
Rigs == {"free", "stuck"}

\* The free rig as the setter takes it to be: a rising edge on the step pin
\* turns the shaft one step, clockwise (the angle grows) with the direction pin
\* off, counter-clockwise with it on; the register wraps at a full turn.
ShaftAfterStep(shaft, pinOn) ==
    IF rig = "stuck" THEN shaft
    ELSE (shaft + (IF pinOn THEN -StepDeg ELSE StepDeg)) % Full

\* History of a step: whether the first step of the move changed the reading.
FirstStep(first, before, after) ==
    IF first # "none" THEN first ELSE IF after = before THEN "same" ELSE "moved"

\* The step moved the reading one granularity the way the direction says.
IdealStep(before, after, gran, clockwise) ==
    after = before + (IF clockwise THEN gran ELSE -gran)

CountStep(n) == IF n < 2 THEN n + 1 ELSE n

\* History of a direction assignment: whether the value was the one held, and
\* how many times the direction pin was written for it.
Assigned(held, value, writes) ==
    [mv EXCEPT !.asg = IF value = held THEN "same" ELSE "other", !.dirw = writes]

\* angle.setter, lines 42-47: choose the direction, or return when equal.
\* direction.setter: store it and write the pin (always).
A_Direction ==
    /\ prog = "turretd" /\ pc = "A_dir"
    /\ LET a == StepperAngle(shaftA, OffsetA) IN
        IF mv.target > a
        THEN /\ dirA' = "cw" /\ dirPinA' = FALSE
             /\ h' = [h EXCEPT !.pinw = TRUE]
             /\ pc' = "A_loop" /\ mv' = Assigned(dirA, "cw", 1)
        ELSE IF mv.target < a
        THEN /\ dirA' = "ccw" /\ dirPinA' = TRUE
             /\ h' = [h EXCEPT !.pinw = TRUE]
             /\ pc' = "A_loop" /\ mv' = Assigned(dirA, "ccw", 1)
        ELSE /\ pc' = "mv_elev" /\ mv' = [mv EXCEPT !.state = "done"]
             /\ UNCHANGED <<dirA, dirPinA, h>>
    /\ UNCHANGED <<prog, rig, turretVars, stepPinA, shaftA, conn, msg, cur, sh, readVars>>

\* The loop condition without its abs().
FarFromTargetSigned(angle, target, tol) == angle - target > tol

\* The loop condition of angle.setter, line 49, and of to_angle, line 244.
FarFromTarget(angle, target, tol) == Abs(angle - target) > tol

\* angle.setter, lines 49-50: while abs(self.angle - new_angle) > step_deg: step()
\* step(): the pin is taken low if high, then high: one rising edge.
A_Loop ==
    /\ prog = "turretd" /\ pc = "A_loop"
    /\ IF FarFromTarget(StepperAngle(shaftA, OffsetA), mv.target, mv.tol)
       THEN /\ stepPinA' = TRUE
            /\ shaftA' = ShaftAfterStep(shaftA, dirPinA)
            /\ h' = [h EXCEPT !.pulsed = TRUE]
            /\ mv' = [mv EXCEPT
                        !.steps = CountStep(@), !.pulses = CountStep(@),
                        !.first = FirstStep(@, shaftA, shaftA'),
                        !.ideal = @ /\ IdealStep(shaftA, shaftA', mv.gran, dirA = "cw")]
            /\ pc' = "A_loop"
       ELSE /\ pc' = "mv_elev" /\ mv' = [mv EXCEPT !.state = "done"]
            /\ UNCHANGED <<stepPinA, shaftA, h>>
    /\ UNCHANGED <<prog, rig, turretVars, dirA, dirPinA, conn, msg, cur, sh, readVars>>

(***************************************************************************)
(* turretd.py: Turret.move, Turret.shoot                                   *)
(***************************************************************************)
\* Turret.move, line 35: self.base_stepper.angle = base_angle (enters the setter)
StartMove(target) ==
    /\ mv' = [NoMove EXCEPT !.state = "run", !.target = target, !.tol = StepDeg,
                            !.gran = StepDeg, !.start = BaseAngle]
    /\ pc' = "A_dir"

\* Turret.move, line 36: self.elev_servo.angle = elev_angle.  A refused value
\* raises inside the try block of _handle_msg, whose except clause logs it and
\* goes on to the next variant.
T_MoveElev ==
    /\ prog = "turretd" /\ pc = "mv_elev"
    /\ LET value == IF cur = "Move" THEN msg.elev_angle ELSE 0 IN
        IF ServoAccepts(value)
        THEN /\ elev' = value
             /\ pc' = IF cur = "Move" THEN "respond" ELSE "rs_shots"
        ELSE /\ elev' = elev
             /\ pc' = IF cur = "Move" THEN "try_shoot" ELSE "unsupported"
    /\ UNCHANGED <<prog, rig, shots, trigger, relay, stepperAVars, sessionVars, sh, mv, readVars>>

\* History: what shoot wrote to a device, with the relay and the counter as
\* they were at that moment.
Wrote(dev, val) == [dev |-> dev, val |-> val, relay |-> relay, shots |-> shots]

\* Turret.shoot, line 42: for _ in range(n) has a round i to run.
InRange(i, n) == i < n

\* Turret.shoot, lines 39-40: self.motor_relay.on()
T_ShootOn ==
    /\ prog = "turretd" /\ pc = "sh_on"
    /\ relay' = TRUE
    /\ sh' = [sh EXCEPT !.on = @ + 1, !.log = Append(@, Wrote("relay", TRUE))]
    /\ pc' = IF InRange(sh.i, sh.n) THEN "sh_fire" ELSE "sh_off"
    /\ UNCHANGED <<prog, rig, shots, elev, trigger, stepperAVars, sessionVars, mv, readVars>>

\* Turret.shoot, lines 42-44: for _ in range(n): self.trigger_servo.angle = -33
T_ShootFire ==
    /\ prog = "turretd" /\ pc = "sh_fire"
    /\ trigger' = TriggerFire
    /\ sh' = [sh EXCEPT !.log = Append(@, Wrote("trigger", TriggerFire))]
    /\ pc' = "sh_rest"
    /\ UNCHANGED <<prog, rig, shots, elev, relay, stepperAVars, sessionVars, mv, readVars>>

\* Turret.shoot, lines 45-46: self.trigger_servo.angle = 0, and the next round
T_ShootRest ==
    /\ prog = "turretd" /\ pc = "sh_rest"
    /\ trigger' = TriggerRest
    /\ sh' = [sh EXCEPT !.i = @ + 1, !.cycles = @ + 1,
                       !.log = Append(@, Wrote("trigger", TriggerRest))]
    /\ pc' = IF InRange(sh.i + 1, sh.n) THEN "sh_fire" ELSE "sh_off"
    /\ UNCHANGED <<prog, rig, shots, elev, relay, stepperAVars, sessionVars, mv, readVars>>

\* Turret.shoot, line 48: self.motor_relay.off()
T_ShootOff ==
    /\ prog = "turretd" /\ pc = "sh_off"
    /\ relay' = FALSE
    /\ sh' = [sh EXCEPT !.off = @ + 1, !.log = Append(@, Wrote("relay", FALSE))]
    /\ pc' = "sh_inc"
    /\ UNCHANGED <<prog, rig, shots, elev, trigger, stepperAVars, sessionVars, mv, readVars>>

\* A counter of calls instead of shots.
ShotsAfterOneMore(s, n) == s + 1

\* The counter after a shoot of n (turretd.py, line 49; server/__main__.py, line 37).
ShotsAfter(s, n) == s + n

\* Turret.shoot, line 49: self.shots += n; then _handle_msg returns None
T_ShootInc ==
    /\ prog = "turretd" /\ pc = "sh_inc"
    /\ shots' = ShotsAfter(shots, sh.n)
    /\ sh' = [sh EXCEPT !.log = Append(@, Wrote("shots", ShotsAfter(shots, sh.n)))]
    /\ pc' = "respond"
    /\ UNCHANGED <<prog, rig, elev, trigger, relay, stepperAVars, sessionVars, mv, readVars>>

(***************************************************************************)
(* turretd.py: _handle_msg                                                 *)
(***************************************************************************)
\* History: a decode is attempted; it is late when a variant decoded before it.
Attempted == [h EXCEPT !.late = @ \/ h.executed # {}]

Executing(variant) ==
    /\ cur' = variant
    /\ h' = [Attempted EXCEPT !.executed = @ \cup {variant}]

\* lines 53-59: try: decode as MoveMsg; turret.move(...); return None
T_TryMove ==
    /\ prog = "turretd" /\ pc = "try_move"
    /\ IF Decodes(msg, "Move")
       THEN Executing("Move") /\ StartMove(msg.base_angle)
       ELSE pc' = "try_shoot" /\ h' = Attempted /\ UNCHANGED <<cur, mv>>
    /\ UNCHANGED <<prog, rig, turretVars, stepperAVars, conn, msg, sh, readVars>>

\* lines 61-67: try: decode as ShootMsg; turret.shoot(msg.times); return None
T_TryShoot ==
    /\ prog = "turretd" /\ pc = "try_shoot"
    /\ IF Decodes(msg, "Shoot")
       THEN /\ Executing("Shoot")
            /\ sh' = [NoShoot EXCEPT !.n = msg.times, !.shots0 = shots]
            /\ pc' = "sh_on"
       ELSE pc' = "try_status" /\ h' = Attempted /\ UNCHANGED <<cur, sh>>
    /\ UNCHANGED <<prog, rig, turretVars, stepperAVars, conn, msg, mv, readVars>>

\* lines 69-74: try: decode as RequestStatusMsg; return StatusMsg(...)
T_TryStatus ==
    /\ prog = "turretd" /\ pc = "try_status"
    /\ IF Decodes(msg, "RequestStatus")
       THEN /\ cur' = "RequestStatus"
            /\ h' = [Attempted EXCEPT !.executed = @ \cup {"RequestStatus"},
                                      !.ret = StatusMsg(BaseAngle, elev, shots)]
            /\ pc' = "respond"
       ELSE pc' = "try_reset" /\ h' = Attempted /\ UNCHANGED cur
    /\ UNCHANGED <<prog, rig, turretVars, stepperAVars, conn, msg, sh, mv, readVars>>

\* lines 76-79: try: decode as ResetMsg; turret.move(0, 0)
T_TryReset ==
    /\ prog = "turretd" /\ pc = "try_reset"
    /\ IF Decodes(msg, "Reset")
       THEN Executing("Reset") /\ StartMove(0)
       ELSE pc' = "unsupported" /\ h' = Attempted /\ UNCHANGED <<cur, mv>>
    /\ UNCHANGED <<prog, rig, turretVars, stepperAVars, conn, msg, sh, readVars>>

\* A reset that keeps the counter.
ShotsAfterResetKept(s) == s

\* line 80: turret.shots = 0
ShotsAfterReset(s) == 0

\* lines 80-81: turret.shots = 0; return None
T_ResetShots ==
    /\ prog = "turretd" /\ pc = "rs_shots"
    /\ shots' = ShotsAfterReset(shots)
    /\ pc' = "respond"
    /\ UNCHANGED <<prog, rig, elev, trigger, relay, stepperAVars, sessionVars, sh, mv, readVars>>

(***************************************************************************)
(* turretd.py: _handle_connection, main                                    *)
(***************************************************************************)
\* main, lines 183-188: conn, addr = sock.accept(); _handle_connection(conn, turret)
T_Accept ==
    /\ prog = "turretd" /\ pc = "accept"
    /\ conn' = conn + 1
    /\ pc' = "recv"
    /\ UNCHANGED <<prog, rig, turretVars, stepperAVars, msg, cur, h, sh, mv, readVars>>

\* _handle_connection, lines 90-96: msg_bytes = conn.recv(4096); _handle_msg(...)
T_Recv(m) ==
    /\ prog = "turretd" /\ pc = "recv"
    /\ ShotsInRange(shots + m.times)
    /\ msg' = m
    /\ h' = [NoHist EXCEPT !.snap = TurretState, !.prev = h.prev]
    /\ pc' = "try_move"
    /\ UNCHANGED <<prog, rig, turretVars, stepperAVars, conn, cur, sh, mv, readVars>>

\* A close that leaves the connection open.
AfterCloseLeak(open) == open

\* _handle_connection, line 106: conn.close()
AfterClose(open) == open - 1

\* _handle_connection, lines 92-93 and 106: a zero-length read ends the session
T_RecvEof ==
    /\ prog = "turretd" /\ pc = "recv"
    /\ conn' = AfterClose(conn)
    /\ h' = NoHist
    /\ pc' = "accept"
    /\ UNCHANGED <<prog, rig, turretVars, stepperAVars, msg, cur, sh, mv, readVars>>

\* _handle_connection, line 90: conn.recv raises OSError (the peer reset the
\* connection).  Nothing in _handle_connection or in main's loop catches it:
\* it leaves both, conn.close() is not reached, and the process ends.
T_RecvFails ==
    /\ prog = "turretd" /\ pc = "recv"
    /\ h' = [h EXCEPT !.ioerr = TRUE]
    /\ pc' = "crashed"
    /\ UNCHANGED <<prog, rig, turretVars, stepperAVars, conn, msg, cur, sh, mv, readVars>>

\* _handle_connection, line 102: conn.send raises OSError (broken pipe); the
\* except clause of line 103 takes ValueError only.
T_SendFails ==
    /\ prog = "turretd" /\ pc = "respond"
    /\ h' = [h EXCEPT !.ioerr = TRUE]
    /\ pc' = "crashed"
    /\ UNCHANGED <<prog, rig, turretVars, stepperAVars, conn, msg, cur, sh, mv, readVars>>

\* _handle_connection, lines 98-102: None is answered with AckMsg; encode, send
T_Respond ==
    /\ prog = "turretd" /\ pc = "respond"
    /\ h' = [h EXCEPT !.sent = Append(@, IF h.ret.type = "none" THEN AckMsg ELSE h.ret)]
    /\ pc' = "sent"
    /\ UNCHANGED <<prog, rig, turretVars, stepperAVars, conn, msg, cur, sh, mv, readVars>>

\* The handling of a message is over: back to recv.  The history keeps how
\* the session's previous message ended.
NextMessage(outcome, at) ==
    /\ msg' = NoMsg /\ cur' = "none" /\ sh' = NoShoot /\ mv' = NoMove
    /\ h' = [NoHist EXCEPT !.prev = outcome]
    /\ pc' = at

\* _handle_connection: the loop's next round after a response was sent
T_Sent ==
    /\ prog = "turretd" /\ pc = "sent"
    /\ NextMessage("sent", "recv")
    /\ UNCHANGED <<prog, rig, turretVars, stepperAVars, conn, readVars>>

\* A handler that gives the session up.
AfterUnsupportedLeaves == "accept"

\* Where _handle_connection goes on after the except clause of lines 103-104:
\* the next round of its loop.
AfterUnsupported == "recv"

\* _handle_msg, line 85: raise ValueError("Unsupported command");
\* _handle_connection, lines 103-104: except ValueError: logger.error(e)
T_Unsupported ==
    /\ prog = "turretd" /\ pc = "unsupported"
    /\ NextMessage("unsupported", AfterUnsupported)
    /\ UNCHANGED <<prog, rig, turretVars, stepperAVars, conn, readVars>>

(***************************************************************************)
(* encoder.py: EncoderMultiplexer, and encoderctl.py                       *)
(***************************************************************************)
\* select, line 29: if not 0 <= idx < 8: raise ValueError
ValidChannel(idx) == 0 <= idx /\ idx < 8

\* The value select's finally clause writes back, line 36.
NeutralChannel == 0

\* Channel arguments tried: two valid ones, the first invalid one, a negative one.
IndexArgs == {-1, 0, 7, 8}

NoCall == [op |-> "none", m |-> "base", port |-> 0, ret |-> "idle", result |-> "none",
           value |-> 0, last |-> 0, touched |-> FALSE, exited |-> FALSE]

\* encoderctl main, line 16, and select, lines 29-33: the range check, then
\* self._bus.write_byte(self.ADDR, idx)
EC_Select(idx) ==
    /\ prog = "encoderctl" /\ pc = "ec_start"
    /\ IF ValidChannel(idx)
       THEN /\ muxReg' = idx
            /\ cl' = [cl EXCEPT !.op = "select", !.port = idx, !.touched = TRUE]
            /\ pc' = "ec_loop"
       ELSE /\ muxReg' = muxReg
            /\ cl' = [cl EXCEPT !.op = "select", !.port = idx,
                                !.result = "InvalidChannel"]
            /\ pc' = "ec_exit"
    /\ UNCHANGED <<prog, rig, rd, turretVars, stepperAVars, sessionVars, sh, mv,
                   hasGpio, dirB, dirPinB, rawB, shotsB>>

\* encoderctl main, lines 17-19: while True: print(enc.angle)
EC_Read ==
    /\ prog = "encoderctl" /\ pc = "ec_loop"
    /\ cl' = [cl EXCEPT !.value = EncoderAngle(rawB[cl.port]), !.result = "ok"]
    /\ pc' = "ec_loop"
    /\ UNCHANGED <<prog, rig, rd, turretVars, stepperAVars, sessionVars, sh, mv,
                   muxReg, hasGpio, dirB, dirPinB, rawB, shotsB>>

\* A read fails with a bus error (or the user interrupts the loop): select's
\* finally clause, line 36, writes the neutral value and the error goes on.
EC_ReadFails ==
    /\ prog = "encoderctl" /\ pc = "ec_loop"
    /\ muxReg' = NeutralChannel
    /\ cl' = [cl EXCEPT !.result = "BusError", !.exited = TRUE]
    /\ pc' = "ec_exit"
    /\ UNCHANGED <<prog, rig, rd, turretVars, stepperAVars, sessionVars, sh, mv,
                   hasGpio, dirB, dirPinB, rawB, shotsB>>

(***************************************************************************)
(* server/stepper.py: EncoderMultiplexer, _EncoderContext, Stepper         *)
(***************************************************************************)
Motors == {"base", "elev"}
Channels == 0 .. 7

\* server/__main__.py, lines 15-16: enc_idx=0 for the base motor, 1 for the other
EncIdx(m) == IF m = "base" THEN 0 ELSE 1

\* EncoderMultiplexer.__init__, line 130: default_offsets = [0.0] * 8
DefaultOffset == 0

\* One pulse turns the simulated shaft one register count, which Encoder.angle
\* takes as one degree.
ServerGran == Deg(1)

\* Ports tried on select; angles and tolerances tried on to_angle.  A program
\* driving the library directly moves the base motor; the datagram server moves
\* both.
BenchMotors == {"base"}
Ports == {0, 1, 7, 8}
ToAngles == {Deg(100), Deg(103), Deg(98) + StepDeg}
Tols == {StepDeg, -Deg(1)}
InitRawB == [c \in Channels |-> 100 + c]

\* What Encoder.angle reads: the encoder behind the channel the register selects.
ServerRead == ServerEncoderAngle(rawB[muxReg], DefaultOffset)

\* The rig as to_angle takes it to be: a pulse turns the shaft one count,
\* clockwise (the angle grows) with the direction pin high.
ServerShaftAfterStep(raw, level) ==
    IF rig = "stuck" THEN raw
    ELSE (raw + (IF level = "HIGH" THEN 1 ELSE -1)) % RawRange

\* A program calls mux.select(port) and reads the angle inside the scope.
B_CallSelect(port) ==
    /\ prog = "bench" /\ pc = "idle"
    /\ cl' = [NoCall EXCEPT !.op = "select", !.port = port]
    /\ pc' = "ctx_enter"
    /\ UNCHANGED <<prog, rig, rd, turretVars, stepperAVars, sessionVars, sh, mv,
                   muxReg, hasGpio, dirB, dirPinB, rawB, shotsB>>

\* Stepper.angle, lines 181-184: with self._multiplexer.select(self._enc_idx)
B_CallAngle(m) ==
    /\ prog = "bench" /\ pc = "idle"
    /\ cl' = [NoCall EXCEPT !.op = "angle", !.m = m, !.port = EncIdx(m)]
    /\ pc' = "ctx_enter"
    /\ UNCHANGED <<prog, rig, rd, turretVars, stepperAVars, sessionVars, sh, mv,
                   muxReg, hasGpio, dirB, dirPinB, rawB, shotsB>>

\* EncoderMultiplexer.select, lines 149-150 (no range check), and
\* _EncoderContext.__enter__, lines 96-98: write_byte(addr, port)
B_CtxEnter ==
    /\ prog = "bench" /\ pc = "ctx_enter"
    /\ muxReg' = cl.port
    /\ cl' = [cl EXCEPT !.touched = TRUE]
    /\ pc' = "ctx_body"
    /\ UNCHANGED <<prog, rig, rd, turretVars, stepperAVars, sessionVars, sh, mv,
                   hasGpio, dirB, dirPinB, rawB, shotsB>>

\* The scope's body: enc.angle, read from the selected channel
B_CtxRead ==
    /\ prog = "bench" /\ pc = "ctx_body"
    /\ muxReg \in Channels
    /\ cl' = [cl EXCEPT !.value = ServerRead, !.result = "ok"]
    /\ pc' = "ctx_exit"
    /\ UNCHANGED <<prog, rig, rd, turretVars, stepperAVars, sessionVars, sh, mv,
                   muxReg, hasGpio, dirB, dirPinB, rawB, shotsB>>

\* The read inside the scope fails: the bus error leaves through __exit__
B_CtxReadFails ==
    /\ prog = "bench" /\ pc = "ctx_body"
    /\ cl' = [cl EXCEPT !.result = "BusError"]
    /\ pc' = "ctx_exit"
    /\ UNCHANGED <<prog, rig, rd, turretVars, stepperAVars, sessionVars, sh, mv,
                   muxReg, hasGpio, dirB, dirPinB, rawB, shotsB>>

\* What the multiplexer's register holds once the scope is left.
\* _EncoderContext.__exit__, lines 100-106: return None
RegisterAfterExit(reg) == reg

B_CtxExit ==
    /\ prog = "bench" /\ pc = "ctx_exit"
    /\ muxReg' = RegisterAfterExit(muxReg)
    /\ cl' = [cl EXCEPT !.exited = TRUE]
    /\ pc' = "ctx_done"
    /\ UNCHANGED <<prog, rig, rd, turretVars, stepperAVars, sessionVars, sh, mv,
                   hasGpio, dirB, dirPinB, rawB, shotsB>>

\* The call is over: back to the caller.
B_Return ==
    /\ prog \in {"bench", "server"} /\ pc \in {"ctx_done", "ta_done", "st_done"}
    /\ cl' = NoCall /\ mv' = NoMove
    /\ pc' = cl.ret
    /\ UNCHANGED <<prog, rig, rd, turretVars, stepperAVars, sessionVars, sh,
                   muxReg, hasGpio, dirB, dirPinB, rawB, shotsB>>

\* Stepper.direction setter, lines 209-214: the pin is written only when the
\* direction changes and the GPIO library is there; _dir is stored always.
DirectionWrites(m, value) == dirB[m] # value /\ hasGpio

PinAfterDirection(m, value) ==
    IF DirectionWrites(m, value)
    THEN [dirPinB EXCEPT ![m] = IF value = "CW" THEN "HIGH" ELSE "LOW"]
    ELSE dirPinB

\* Stepper.step, lines 194-201: nothing without GPIO; else the step pin goes
\* high, then low: one pulse, and the shaft of motor m turns.
RawAfterStep(m) ==
    IF hasGpio
    THEN [rawB EXCEPT ![EncIdx(m)] = ServerShaftAfterStep(@, dirPinB[m])]
    ELSE rawB

StartToAngle(m, angle, tol, ret) ==
    /\ cl' = [NoCall EXCEPT !.op = "to_angle", !.m = m, !.port = EncIdx(m), !.ret = ret]
    /\ mv' = [NoMove EXCEPT
                !.state = "run", !.target = angle, !.tol = tol, !.gran = ServerGran,
                !.start = ServerEncoderAngle(rawB[EncIdx(m)], DefaultOffset)]
    /\ pc' = "ta_start"

\* A program calls stepper.to_angle(angle, tol=tol).
B_CallToAngle(m, angle, tol) ==
    /\ prog = "bench" /\ pc = "idle"
    /\ StartToAngle(m, angle, tol, "idle")
    /\ UNCHANGED <<prog, rig, rd, turretVars, stepperAVars, sessionVars, sh,
                   muxReg, hasGpio, dirB, dirPinB, rawB, shotsB>>

\* A to_angle without the check for the GPIO library.
HeadlessReturnsNever == FALSE

\* to_angle, lines 225-226: if not _has_gpio: return
HeadlessReturns == ~hasGpio

\* to_angle, lines 225-228: if not _has_gpio: return; tol = abs(tol)
TA_Start ==
    /\ prog \in {"bench", "server"} /\ pc = "ta_start"
    /\ IF HeadlessReturns
       THEN mv' = [mv EXCEPT !.state = "done"] /\ pc' = "ta_done"
       ELSE mv' = [mv EXCEPT !.tol = Abs(@)] /\ pc' = "ta_enter"
    /\ UNCHANGED <<prog, rig, rd, turretVars, stepperAVars, sessionVars, sh,
                   muxReg, hasGpio, dirB, dirPinB, rawB, shotsB, cl>>

\* to_angle, line 230: with self._multiplexer.select(self._enc_idx) as enc
TA_Enter ==
    /\ prog \in {"bench", "server"} /\ pc = "ta_enter"
    /\ muxReg' = cl.port
    /\ cl' = [cl EXCEPT !.touched = TRUE]
    /\ pc' = "ta_dir"
    /\ UNCHANGED <<prog, rig, rd, turretVars, stepperAVars, sessionVars, sh, mv,
                   hasGpio, dirB, dirPinB, rawB, shotsB>>

\* to_angle, lines 231-234: CW when the angle read is below the target, else CCW
TA_Direction ==
    /\ prog \in {"bench", "server"} /\ pc = "ta_dir"
    /\ LET value == IF ServerRead < mv.target THEN "CW" ELSE "CCW" IN
        /\ dirPinB' = PinAfterDirection(cl.m, value)
        /\ dirB' = [dirB EXCEPT ![cl.m] = value]
        /\ mv' = Assigned(dirB[cl.m], value, IF DirectionWrites(cl.m, value) THEN 1 ELSE 0)
    /\ pc' = "ta_step1"
    /\ UNCHANGED <<prog, rig, rd, turretVars, stepperAVars, sessionVars, sh,
                   muxReg, hasGpio, rawB, shotsB, cl>>

\* History of a step of motor m: counted, and ideal while every step moved the
\* reading one granularity the way the stored direction says.
MoveAfterStep(m, raw1) ==
    [mv EXCEPT
        !.steps = CountStep(@),
        !.pulses = IF hasGpio THEN CountStep(@) ELSE @,
        !.first = FirstStep(@, ServerEncoderAngle(rawB[EncIdx(m)], DefaultOffset),
                            ServerEncoderAngle(raw1[EncIdx(m)], DefaultOffset)),
        !.ideal = @ /\ IdealStep(ServerEncoderAngle(rawB[EncIdx(m)], DefaultOffset),
                                 ServerEncoderAngle(raw1[EncIdx(m)], DefaultOffset),
                                 mv.gran, dirB[m] = "CW")]

\* A program calls stepper.step() (lines 186-201), tried with the shaft where
\* it was at the start.
B_CallStep(m) ==
    /\ prog = "bench" /\ pc = "idle"
    /\ rawB[EncIdx(m)] = InitRawB[EncIdx(m)]
    /\ cl' = [NoCall EXCEPT !.op = "step", !.m = m, !.port = EncIdx(m)]
    /\ rawB' = RawAfterStep(m)
    /\ mv' = [MoveAfterStep(m, rawB') EXCEPT !.start =
                ServerEncoderAngle(rawB[EncIdx(m)], DefaultOffset)]
    /\ pc' = "st_done"
    /\ UNCHANGED <<prog, rig, rd, turretVars, stepperAVars, sessionVars, sh,
                   muxReg, hasGpio, dirB, dirPinB, shotsB>>

\* to_angle, lines 236-237: last_angle = enc.angle; self.step()
TA_FirstStep ==
    /\ prog \in {"bench", "server"} /\ pc = "ta_step1"
    /\ cl' = [cl EXCEPT !.last = ServerRead]
    /\ rawB' = RawAfterStep(cl.m)
    /\ mv' = MoveAfterStep(cl.m, rawB')
    /\ pc' = "ta_check"
    /\ UNCHANGED <<prog, rig, rd, turretVars, stepperAVars, sessionVars, sh,
                   muxReg, hasGpio, dirB, dirPinB, shotsB>>

\* to_angle, lines 239-242: if enc.angle == last_angle: warn(...)
TA_Check ==
    /\ prog \in {"bench", "server"} /\ pc = "ta_check"
    /\ mv' = [mv EXCEPT !.warned = (ServerRead = cl.last)]
    /\ pc' = "ta_loop"
    /\ UNCHANGED <<prog, rig, rd, turretVars, stepperAVars, sessionVars, sh,
                   muxReg, hasGpio, dirB, dirPinB, rawB, shotsB, cl>>

\* to_angle, lines 244-245: while abs(enc.angle - angle) > tol: self.step();
\* then the scope is left (__exit__) and to_angle returns
TA_Loop ==
    /\ prog \in {"bench", "server"} /\ pc = "ta_loop"
    /\ IF FarFromTarget(ServerRead, mv.target, mv.tol)
       THEN /\ rawB' = RawAfterStep(cl.m)
            /\ mv' = MoveAfterStep(cl.m, rawB')
            /\ pc' = "ta_loop"
            /\ UNCHANGED <<muxReg, cl>>
       ELSE /\ muxReg' = RegisterAfterExit(muxReg)
            /\ cl' = [cl EXCEPT !.exited = TRUE]
            /\ mv' = [mv EXCEPT !.state = "done"]
            /\ pc' = "ta_done"
            /\ UNCHANGED rawB
    /\ UNCHANGED <<prog, rig, rd, turretVars, stepperAVars, sessionVars, sh,
                   hasGpio, dirB, dirPinB, shotsB>>

(***************************************************************************)
(* msgs.py and server/__main__.py                                          *)
(***************************************************************************)
\* msgs.py, lines 35-48: the classifiers
is_stepper_msg(m) == m.type = "stepper"
is_fire_msg(m) == m.type = "fire"
is_status_req(m) == m.type = "status"
is_stop_msg(m) == m.type = "status"

\* The tags of the datagram protocol.
Tags == {"stepper", "fire", "status", "stop"}

\* The tags whose classifier accepts the message.
ClassifiedAs(m) ==
    {t \in Tags : \/ (t = "stepper" /\ is_stepper_msg(m))
                  \/ (t = "fire" /\ is_fire_msg(m))
                  \/ (t = "status" /\ is_status_req(m))
                  \/ (t = "stop" /\ is_stop_msg(m))}

\* Decoded datagrams: the four tags and an unknown one.
ServerMessages ==
    [type : {"stepper"}, target : {"base", "elevation", "turret"},
     angle : {Deg(100), Deg(103)}, count : {0}]
    \cup [type : {"fire"}, target : {"base"}, angle : {0}, count : {-1, 1, 2}]
    \cup [type : {"status", "stop", "hello"}, target : {"base"}, angle : {0}, count : {0}]

\* to_angle, line 216: tol: float = 1.8
DefaultTol == StepDeg

\* main, lines 24-47: one round of the loop, up to the call of to_angle.
\* A stepper message with an unknown target raises RuntimeError; a status
\* request reads base_motor.idx, an attribute Stepper does not have: both end
\* the process.
S_Recv(m) ==
    /\ prog = "server" /\ pc = "recv"
    /\ ShotsInRange(shotsB + m.count)
    /\ IF is_stepper_msg(m)
       THEN /\ IF m.target = "base"
               THEN StartToAngle("base", m.angle, DefaultTol, "recv")
               ELSE IF m.target = "elevation"
               THEN StartToAngle("elev", m.angle, DefaultTol, "recv")
               ELSE pc' = "crashed" /\ UNCHANGED <<cl, mv>>
            /\ UNCHANGED shotsB
       ELSE IF is_fire_msg(m)
       THEN /\ shotsB' = ShotsAfter(shotsB, m.count)
            /\ pc' = "recv" /\ UNCHANGED <<cl, mv>>
       ELSE IF is_status_req(m)
       THEN pc' = "crashed" /\ UNCHANGED <<cl, mv, shotsB>>
       ELSE pc' = "recv" /\ UNCHANGED <<cl, mv, shotsB>>
    /\ UNCHANGED <<prog, rig, rd, turretVars, stepperAVars, sessionVars, sh,
                   muxReg, hasGpio, dirB, dirPinB, rawB>>

(***************************************************************************)
(* The angle accessors on one register value                               *)
(***************************************************************************)
\* Calibration offsets tried: none, the daemon's 279.76, a negative one, one
\* above a full turn.
ReadOffsets == {0, OffsetA, -Deg(90), Deg(400)}
ReadImpls == {"encoder.Encoder", "stepper.Stepper", "server.Encoder"}
NoRead == [impl |-> "none", raw |-> 0, off |-> 0, out |-> 0]

\* The value the accessor of implementation impl returns for register value raw
\* with calibration offset off (encoder.Encoder has no offset).
AngleOf(impl, raw, off) ==
    IF impl = "encoder.Encoder" THEN EncoderAngle(raw)
    ELSE IF impl = "stepper.Stepper" THEN StepperAngle(EncoderAngle(raw), off)
    ELSE ServerEncoderAngle(raw, off)

R_Read(impl) ==
    /\ prog = "read" /\ pc = "start"
    /\ rd' = [rd EXCEPT !.impl = impl, !.out = AngleOf(impl, rd.raw, rd.off)]
    /\ pc' = "done"
    /\ UNCHANGED <<prog, rig, turretVars, stepperAVars, sessionVars, sh, mv, serverVars>>

(***************************************************************************)
(* msgs.py: status_resp, encode, decode                                    *)
(***************************************************************************)
\* Python values: a string, an int, or a float counted in hundredths (the
\* floats taken are those with at most two decimals, whose repr is that
\* decimal).
PyStr(x) == [kind |-> "str", s |-> x, c |-> 0]
PyInt(n) == [kind |-> "int", s |-> "", c |-> n]
PyFloat(hundredths) == [kind |-> "float", s |-> "", c |-> hundredths]

\* Bases, elevations and shots a status response may carry.
CodecBases == {PyFloat(-27976), PyFloat(-50), PyFloat(0), PyFloat(5), PyFloat(4500),
               PyFloat(8024), PyFloat(10025), PyInt(0), PyInt(-7)}
CodecElevs == {PyFloat(-9000), PyFloat(-125), PyFloat(0), PyFloat(1000), PyInt(10)}
CodecShots == {PyInt(0), PyInt(1), PyInt(9), PyInt(10), PyInt(205)}

\* status_resp, lines 51-52
status_resp(base, elevation, n) ==
    [type |-> PyStr("status"), base |-> base, elevation |-> elevation, shots |-> n]

\* The JSON text, as its sequence of tokens: punctuation, white space, string
\* literals, and the characters of numbers.  The text is ASCII, which UTF-8
\* writes and reads byte for byte.
Punct(x) == [k |-> "punct", v |-> x]
Lit(x) == [k |-> "str", v |-> x]
Ch(x) == [k |-> "ch", v |-> x]

DigitChars == <<"0", "1", "2", "3", "4", "5", "6", "7", "8", "9">>

RECURSIVE IntDigits(_)
IntDigits(n) ==
    IF n < 10 THEN <<Ch(DigitChars[n + 1])>>
    ELSE IntDigits(n \div 10) \o <<Ch(DigitChars[(n % 10) + 1])>>

Sign(n) == IF n < 0 THEN <<Ch("-")>> ELSE <<>>

\* A fraction cut down to no digits.
FracDigitsNone(frac) == <<Ch("0")>>

\* float.__repr__: the shortest decimal that reads back as the same float, with
\* at least one digit after the point.
FracDigits(frac) ==
    IF frac % 10 = 0 THEN IntDigits(frac \div 10)
    ELSE IntDigits(frac \div 10) \o IntDigits(frac % 10)

FormatFloat(hundredths) ==
    Sign(hundredths) \o IntDigits(Abs(hundredths) \div 100) \o <<Ch(".")>>
        \o FracDigits(Abs(hundredths) % 100)

\* json.dumps of one value
Dumps(value) ==
    IF value.kind = "str" THEN <<Lit(value.s)>>
    ELSE IF value.kind = "int" THEN Sign(value.c) \o IntDigits(Abs(value.c))
    ELSE FormatFloat(value.c)

Member(key, value) == <<Lit(key), Punct(":"), [k |-> "ws", v |-> " "]>> \o Dumps(value)

RECURSIVE Joined(_)
Joined(members) ==
    IF Len(members) = 1 THEN Member(members[1][1], members[1][2])
    ELSE Member(members[1][1], members[1][2]) \o <<Punct(","), [k |-> "ws", v |-> " "]>>
            \o Joined(Tail(members))

\* The JSON text of an object with the given <<key, value>> members.
JsonObject(members) == <<Punct("{")>> \o Joined(members) \o <<Punct("}")>>

\* encode, lines 55-56: json.dumps(msg).encode("utf-8"); the keys come in the
\* order status_resp wrote them.
encode(m) ==
    JsonObject(<< <<"type", m.type>>, <<"base", m.base>>,
                  <<"elevation", m.elevation>>, <<"shots", m.shots>> >>)

\* Datagrams a client may send: one of each tag, and an unknown one.
Datagrams ==
    {JsonObject(<< <<"type", PyStr("stepper")>>, <<"target", PyStr("base")>>,
                   <<"angle", PyFloat(10025)>> >>),
     JsonObject(<< <<"type", PyStr("fire")>>, <<"count", PyInt(2)>> >>),
     JsonObject(<< <<"type", PyStr("status")>> >>),
     JsonObject(<< <<"type", PyStr("stop")>> >>),
     JsonObject(<< <<"type", PyStr("hello")>> >>)}

DigitOf(ch) == (CHOOSE i \in 1 .. 10 : DigitChars[i] = ch.v) - 1

RECURSIVE DigitsValue(_)
DigitsValue(digits) ==
    IF digits = <<>> THEN 0
    ELSE DigitsValue(SubSeq(digits, 1, Len(digits) - 1)) * 10 + DigitOf(digits[Len(digits)])

\* The first place of token t in toks, or one past the end.
RECURSIVE Find(_, _, _)
Find(toks, t, i) ==
    IF i > Len(toks) \/ toks[i] = t THEN i ELSE Find(toks, t, i + 1)

\* json.loads of a number: an int without a point, a float with one.
ParseNumber(toks) ==
    LET neg == toks[1] = Ch("-")
        body == IF neg THEN SubSeq(toks, 2, Len(toks)) ELSE toks
        dot == Find(body, Ch("."), 1)
        whole == DigitsValue(SubSeq(body, 1, dot - 1))
        frac == SubSeq(body, dot + 1, Len(body))
        scaled == IF Len(frac) = 1 THEN DigitsValue(frac) * 10 ELSE DigitsValue(frac)
    IN  IF dot > Len(body)
        THEN PyInt(IF neg THEN -whole ELSE whole)
        ELSE PyFloat(IF neg THEN -(whole * 100 + scaled) ELSE whole * 100 + scaled)

ParseValue(toks) ==
    IF toks[1].k = "str" THEN PyStr(toks[1].v) ELSE ParseNumber(toks)

\* The members of an object's body, split at its commas.
RECURSIVE Members(_)
Members(body) ==
    LET comma == Find(body, Punct(","), 1) IN
    IF comma > Len(body) THEN <<body>>
    ELSE <<SubSeq(body, 1, comma - 1)>> \o Members(SubSeq(body, comma + 1, Len(body)))

\* decode, lines 59-60: json.loads(msg.decode("utf-8")): the dict of the
\* object's members.
decode(wire) ==
    LET toks == SelectSeq(wire, LAMBDA t : t.k # "ws")
        members == Members(SubSeq(toks, 2, Len(toks) - 1))
        keys == {members[i][1].v : i \in 1 .. Len(members)}
        of(key) == CHOOSE i \in 1 .. Len(members) : members[i][1].v = key
    IN  [key \in keys |-> ParseValue(SubSeq(members[of(key)], 3, Len(members[of(key)])))]

NoCodec == [src |-> "none", msg |-> <<>>, wire |-> <<>>, out |-> <<>>, cls |-> {}]

M_Encode ==
    /\ prog = "codec" /\ pc = "built"
    /\ rd' = [rd EXCEPT !.wire = encode(rd.msg)]
    /\ pc' = "encoded"
    /\ UNCHANGED <<prog, rig, turretVars, stepperAVars, sessionVars, sh, mv, serverVars>>

M_Decode ==
    /\ prog = "codec" /\ pc = "encoded"
    /\ rd' = [rd EXCEPT !.out = decode(rd.wire)]
    /\ pc' = "decoded"
    /\ UNCHANGED <<prog, rig, turretVars, stepperAVars, sessionVars, sh, mv, serverVars>>

\* server/__main__.py, lines 26-39: the decoded datagram goes through the
\* classifiers, which look at msg["type"].
M_Classify ==
    /\ prog = "codec" /\ pc = "decoded"
    /\ rd' = [rd EXCEPT !.cls = ClassifiedAs([type |-> rd.out.type.s])]
    /\ pc' = "classified"
    /\ UNCHANGED <<prog, rig, turretVars, stepperAVars, sessionVars, sh, mv, serverVars>>

(***************************************************************************)
(* The programs                                                            *)
(***************************************************************************)
vars == <<prog, pc, rig, rd, conn, msg, cur, shots, elev, trigger, relay,
          dirA, dirPinA, stepPinA, shaftA, sh, h, mv,
          muxReg, hasGpio, dirB, dirPinB, rawB, shotsB, cl>>

\* turretd main, lines 148-177: the turret after construction
TurretBuilt ==
    /\ conn = 0 /\ msg = NoMsg /\ cur = "none"
    /\ shots = 0 /\ elev = 0 /\ trigger = TriggerRest /\ relay = FALSE
    /\ dirA = "cw" /\ dirPinA = FALSE /\ stepPinA = FALSE
    /\ sh = NoShoot /\ h = NoHist /\ mv = NoMove

\* server/__main__.py, lines 13-16: the multiplexer and the motors after
\* construction.  GPIO.setup gives the direction pins no level: each is high
\* or low.
ServerBuilt ==
    /\ muxReg = NeutralChannel
    /\ dirB = [m \in Motors |-> "CW"]
    /\ dirPinB \in [Motors -> {"HIGH", "LOW"}]
    /\ rawB = InitRawB
    /\ shotsB = 0 /\ cl = NoCall

InitTurretd ==
    /\ prog = "turretd" /\ pc = "accept" /\ rig \in Rigs
    /\ TurretBuilt
    /\ shaftA \in {EncoderAngle(r) : r \in InitRawsA}
    /\ ServerBuilt /\ hasGpio = TRUE /\ dirPinB = [m \in Motors |-> "LOW"]
    /\ rd = NoRead

InitServer ==
    /\ prog \in {"server", "bench"}
    /\ pc = IF prog = "server" THEN "recv" ELSE "idle"
    /\ TurretBuilt /\ shaftA = 0
    /\ ServerBuilt /\ hasGpio \in BOOLEAN
    /\ rig \in IF prog = "bench" /\ hasGpio THEN Rigs ELSE {"free"}
    /\ rd = NoRead

InitEncoderctl ==
    /\ prog = "encoderctl" /\ pc = "ec_start" /\ rig = "free"
    /\ TurretBuilt /\ shaftA = 0
    /\ ServerBuilt /\ hasGpio = TRUE /\ dirPinB = [m \in Motors |-> "LOW"]
    /\ rd = NoRead

InitRead ==
    /\ prog = "read" /\ pc = "start" /\ rig = "free"
    /\ TurretBuilt /\ shaftA = 0
    /\ ServerBuilt /\ hasGpio = TRUE /\ dirPinB = [m \in Motors |-> "LOW"]
    /\ rd \in [impl : {"none"}, raw : 0 .. RawRange - 1, off : ReadOffsets, out : {0}]

\* A status response to send, or a datagram that has arrived.
InitCodec ==
    /\ prog = "codec" /\ rig = "free"
    /\ TurretBuilt /\ shaftA = 0
    /\ ServerBuilt /\ hasGpio = TRUE /\ dirPinB = [m \in Motors |-> "LOW"]
    /\ \/ /\ pc = "built"
          /\ \E b \in CodecBases, e \in CodecElevs, n \in CodecShots :
                rd = [NoCodec EXCEPT !.src = "status_resp", !.msg = status_resp(b, e, n)]
       \/ /\ pc = "encoded"
          /\ \E w \in Datagrams : rd = [NoCodec EXCEPT !.src = "datagram", !.wire = w]

NextTurretd ==
    \/ T_Accept \/ T_RecvEof \/ T_RecvFails \/ T_SendFails
    \/ (\E m \in Messages : T_Recv(m))
    \/ T_TryMove \/ T_TryShoot \/ T_TryStatus \/ T_TryReset
    \/ A_Direction \/ A_Loop \/ T_MoveElev
    \/ T_ShootOn \/ T_ShootFire \/ T_ShootRest \/ T_ShootOff \/ T_ShootInc
    \/ T_ResetShots \/ T_Respond \/ T_Sent \/ T_Unsupported

NextServer ==
    \/ (\E port \in Ports : B_CallSelect(port))
    \/ (\E m \in Motors : B_CallAngle(m))
    \/ (\E m \in BenchMotors : B_CallStep(m))
    \/ (\E m \in BenchMotors, angle \in ToAngles, tol \in Tols :
            B_CallToAngle(m, angle, tol))
    \/ B_CtxEnter \/ B_CtxRead \/ B_CtxReadFails \/ B_CtxExit \/ B_Return
    \/ TA_Start \/ TA_Enter \/ TA_Direction \/ TA_FirstStep \/ TA_Check \/ TA_Loop
    \/ (\E m \in ServerMessages : S_Recv(m))

NextEncoderctl ==
    \/ (\E idx \in IndexArgs : EC_Select(idx))
    \/ EC_Read \/ EC_ReadFails

NextRead == \E impl \in ReadImpls : R_Read(impl)

NextCodec == M_Encode \/ M_Decode \/ M_Classify

Init == InitTurretd \/ InitServer \/ InitEncoderctl
Next == NextTurretd \/ NextServer \/ NextEncoderctl

Spec == Init /\ [][Next]_vars
\* Every program is one thread that runs on while it has a step to take.
FairSpec == Spec /\ WF_vars(Next)
SpecRead == InitRead /\ [][NextRead]_vars
SpecCodec == InitCodec /\ [][NextCodec]_vars

(***************************************************************************)
(* Properties                                                              *)
(***************************************************************************)
\* A select with this port has run (it is past its range check and its write).
SelectRan ==
    /\ cl.op \in {"select", "angle"}
    /\ pc \in {"ctx_body", "ctx_exit", "ctx_done", "ec_loop", "ec_exit"}

\* C1: for every channel outside [0,8), select fails with InvalidChannel and no
\* bus transaction has happened, in encoder.py and in server/stepper.py alike.
C1_InvalidChannelRejected ==
    (SelectRan /\ ~ValidChannel(cl.port)) =>
        (cl.result = "InvalidChannel" /\ ~cl.touched)

\* C2: once a select scope has exited, whether its body read the angle or failed
\* with a bus error, the multiplexer's register holds the neutral value; so
\* between calls no other channel is left asserted.
C2_NeutralAfterScope ==
    (cl.exited \/ (prog \in {"bench", "server"} /\ pc \in {"idle", "recv"})) =>
        muxReg = NeutralChannel

\* C3: for every raw register value r and offset o, each Encoder.angle returns
\* ((r * 360 / 4096) - o) mod 360: scaled to degrees, then the offset taken off
\* (encoder.py's Encoder has no offset: o is 0 there).
C3_ScaledThenOffset ==
    (prog = "read" /\ pc = "done" /\ rd.impl \in {"encoder.Encoder", "server.Encoder"}) =>
        rd.out = ((rd.raw * (Full \div RawRange))
                  - (IF rd.impl = "encoder.Encoder" THEN 0 ELSE rd.off)) % Full

\* C4: whatever the raw value and the offset, the angle Stepper.angle returns
\* (stepper.py, and the multiplexed read of server/stepper.py) is in [0, 360).
C4_AngleNormalized ==
    (prog = "read" /\ pc = "done" /\ rd.impl \in {"stepper.Stepper", "server.Encoder"}) =>
        (0 <= rd.out /\ rd.out < Full)

\* The angle the axis of the running move_to reads now.
CurrentAngle ==
    IF prog = "turretd" THEN BaseAngle
    ELSE ServerEncoderAngle(rawB[EncIdx(cl.m)], DefaultOffset)

\* The step pulses reach a motor (server/stepper.py without GPIO emits none).
PulsesAvailable == prog = "turretd" \/ hasGpio

\* The tolerance is at least the step granularity, and every step so far moved
\* the reading one granularity the way the move chose.
MoveHypothesis == mv.tol >= mv.gran /\ mv.ideal

WithinTolerance == Abs(CurrentAngle - mv.target) <= mv.tol

\* C5, as claimed: when move_to has returned, under the hypothesis, the final
\* angle is within the tolerance of the target (stepper.py and server/).
C5_ReturnsWithinTolerance ==
    (mv.state = "done" /\ MoveHypothesis) => WithinTolerance

\* C5, amended: with the pulse hardware available, move_to under the hypothesis
\* returns, and when it has returned the final angle is within the tolerance of
\* the target; without the hardware to_angle returns at once where it is.
C5_MoveConverges ==
    /\ []((mv.state = "done" /\ MoveHypothesis /\ PulsesAvailable) => WithinTolerance)
    /\ ((mv.state = "run") ~> (mv.state = "done" \/ ~MoveHypothesis))

\* C5: a to_angle that started outside the tolerance has stepped there.
C5_Witness ==
    /\ prog = "bench" /\ mv.state = "done" /\ PulsesAvailable /\ MoveHypothesis
    /\ mv.steps = 2 /\ Abs(mv.start - mv.target) > mv.tol
    /\ WithinTolerance

\* Turret.shoot has returned (to _handle_msg, which is about to return None).
ShootReturned == prog = "turretd" /\ pc = "respond" /\ cur = "Shoot"

\* C6: for every n, when shoot(n) returns shots has grown by exactly n, the relay
\* was switched on exactly once and off exactly once, and the relay is off; and
\* at no point of the call was it switched on or off a second time.
C6_ShootEffect ==
    /\ sh.on <= 1 /\ sh.off <= 1
    /\ ShootReturned =>
        (shots = sh.shots0 + sh.n /\ sh.on = 1 /\ sh.off = 1 /\ ~relay)

\* C6: a shoot(2) has returned, with shots two higher than before.
C6_Witness ==
    ShootReturned /\ sh.n = 2 /\ sh.cycles = 2 /\ shots = sh.shots0 + 2 /\ ~relay

\* C7: shots never decreases and is never negative, except that a Reset sets
\* it to 0 (turretd's Turret.shots and the UDP server's shots).
C7_ShotsMonotone ==
    [][/\ (shots' >= shots \/ (cur = "Reset" /\ shots' = 0))
       /\ shots' >= 0
       /\ shotsB' >= shotsB]_vars

\* The first variant, in the dispatcher's order, that the message decodes as.
FirstVariant(m) ==
    IF Decodes(m, "Move") THEN "Move"
    ELSE IF Decodes(m, "Shoot") THEN "Shoot"
    ELSE IF Decodes(m, "RequestStatus") THEN "RequestStatus"
    ELSE IF Decodes(m, "Reset") THEN "Reset"
    ELSE "none"

\* C8: once a variant has decoded, only its operation is executed and no later
\* variant is attempted, even if the operation fails; a message with the Move
\* shape is handled as Move only.
C8_ExactlyOneVariant ==
    prog = "turretd" =>
        /\ ~h.late
        /\ h.executed \subseteq {FirstVariant(msg)}

\* C9: when the handling of a message ends in UnsupportedMessage, the turret is
\* as it was when the message arrived, and no step pulse and no direction pin
\* write happened.
C9_UnsupportedLeavesState ==
    (prog = "turretd" /\ pc = "unsupported") =>
        (TurretState = h.snap /\ ~h.pulsed /\ ~h.pinw)

\* The response the variant calls for, after its operation.
ExpectedResponse(variant) ==
    IF variant = "RequestStatus" THEN StatusMsg(BaseAngle, elev, shots) ELSE AckMsg

\* C10: when the handling of a message that decodes as a known variant is over,
\* exactly one response has been sent: the StatusMsg of the current angles and
\* shots for a status request, an AckMsg for Move, Shoot and Reset.
C10_OneResponsePerMessage ==
    (prog = "turretd" /\ pc \in {"sent", "unsupported"} /\ FirstVariant(msg) # "none") =>
        (pc = "sent" /\ h.sent = <<ExpectedResponse(FirstVariant(msg))>>)


\* A connection is being served: _handle_connection is running.
InSession == prog = "turretd" /\ pc \notin {"accept", "crashed"}

\* The step is the zero-length read that closes the connection.
ClosedOnEof == pc = "recv" /\ pc' = "accept" /\ conn' = conn - 1

\* C11, as claimed: an UnsupportedMessage is followed by the next read on the
\* same open connection, and the loop leaves the session only by the zero-length
\* read that closes the connection.
C11_LeavesOnlyOnEof ==
    [][/\ (prog = "turretd" /\ pc = "unsupported") =>
            (pc' = "recv" /\ conn = 1 /\ conn' = conn)
       /\ (InSession /\ ~InSession') => ClosedOnEof]_vars

\* C11, amended: an UnsupportedMessage is followed by the next read on the
\* same open connection; the loop leaves the session only by the zero-length
\* read, which closes the connection, or by a transport error of recv or send,
\* which does not; the connection is closed by nothing but the zero-length read.
C11_UnsupportedKeepsSession ==
    [][/\ (prog = "turretd" /\ pc = "unsupported") =>
            (pc' = "recv" /\ conn = 1 /\ conn' = conn)
       /\ (InSession /\ ~InSession') =>
            (ClosedOnEof \/ (pc \in {"recv", "respond"} /\ h'.ioerr /\ conn' = conn))
       /\ (conn' < conn) => ClosedOnEof]_vars

\* C11: the message after an unsupported one was answered on the same connection.
C11_Witness ==
    prog = "turretd" /\ pc = "sent" /\ h.prev = "unsupported" /\ conn = 1

\* C12: after a transport error of recv or send the daemon is still running
\* (it goes back to accept with the same turret).
C12_TransportErrorEndsSessionOnly ==
    (prog = "turretd" /\ h.ioerr) => pc # "crashed"

\* C13: at most one accepted connection is open, none while accept is called,
\* and the turret is the same from the close of one session to the start of
\* the next.
C13_SessionsSequential ==
    /\ [](prog = "turretd" => (conn <= 1 /\ (pc = "accept" => conn = 0)))
    /\ [][(prog = "turretd" /\ (pc = "accept" \/ pc' = "accept")) =>
            TurretState' = TurretState]_vars

\* C13: a later session has started with the shots of an earlier one.
C13_Witness ==
    /\ prog = "turretd" /\ pc = "recv" /\ conn = 1
    /\ h.prev = "none" /\ shots = 2

\* A Reset command has been handled and answered.
ResetAnswered == prog = "turretd" /\ pc = "sent" /\ cur = "Reset"

\* C14, as claimed: after a Reset the state is (base = 0, elev = 0, shots = 0)
\* and the reply is Ack.
C14_ResetToZero ==
    ResetAnswered =>
        (BaseAngle = 0 /\ elev = 0 /\ shots = 0 /\ h.sent = <<AckMsg>>)

\* C14, amended: a Reset commands move(0, 0) and then sets shots to 0; after it
\* the base angle is within one step (1.8 degrees) of 0, the elevation is 0,
\* shots is 0, and the reply is Ack.
C14_ResetNearZero ==
    ResetAnswered =>
        /\ mv.target = 0 /\ mv.state = "done"
        /\ Abs(BaseAngle) <= StepDeg
        /\ elev = 0 /\ shots = 0 /\ h.sent = <<AckMsg>>

\* C14: a Reset was answered that found the turret near 45 degrees, elevated to
\* 10, with two shots counted, and stepped the base back.
C14_Witness ==
    /\ ResetAnswered
    /\ h.snap.shots = 2 /\ h.snap.elev = 10
    /\ StepperAngle(h.snap.shaft, OffsetA) > Deg(40)
    /\ mv.steps = 2 /\ shots = 0 /\ elev = 0

\* C15: decoding the encoding of a status response gives that status response
\* back: type status and the same base, elevation and shots.
C15_CodecRoundTrip ==
    (prog = "codec" /\ rd.src = "status_resp" /\ pc \in {"decoded", "classified"}) =>
        rd.out = rd.msg

\* C15: a response with a negative two-decimal base and a shots count of
\* several digits went through encode and decode.
C15_Witness ==
    /\ prog = "codec" /\ pc = "decoded" /\ rd.src = "status_resp"
    /\ rd.msg.base = PyFloat(-27976) /\ rd.msg.shots = PyInt(205)
    /\ Len(rd.wire) > 20
    /\ rd.out.base = PyFloat(-27976)

\* C17: for a received datagram whose type is one of the four tags, exactly
\* one classifier is true: the one of that tag.
C17_ClassifiersPartition ==
    (prog = "codec" /\ pc = "classified" /\ rd.out.type.s \in Tags) =>
        rd.cls = {rd.out.type.s}

\* server/stepper.py runs without the GPIO library.
Headless == prog \in {"server", "bench"} /\ ~hasGpio

\* C16: without the pulse hardware, step and to_angle return without failing,
\* without a write to the step or direction pin, without entering the
\* convergence loop (they do not even touch the bus), and with the stored
\* Direction unchanged.
C16_HeadlessNoOps ==
    /\ [](Headless =>
            /\ pc \notin {"ta_enter", "ta_dir", "ta_step1", "ta_check", "ta_loop"}
            /\ mv.pulses = 0 /\ mv.dirw = 0 /\ mv.asg = "none"
            /\ cl.op \in {"step", "to_angle"} => (~cl.touched /\ cl.result # "BusError"))
    /\ [][(Headless /\ (cl.op \in {"step", "to_angle"} \/ cl'.op \in {"step", "to_angle"})) =>
            UNCHANGED <<dirB, dirPinB, rawB, muxReg>>]_vars

\* C16: without the hardware a to_angle has returned, its target further away
\* than the tolerance.
C16_Witness ==
    /\ Headless /\ cl.op = "to_angle" /\ pc = "ta_done" /\ mv.state = "done"
    /\ Abs(mv.start - mv.target) > Abs(mv.tol)

\* C18: in a move_to that read the target angle itself at its start, no step
\* pulse is emitted and the Direction and the direction pin are left as they
\* were (stepper.py and server/stepper.py).
C18_EqualAngleNoMotion ==
    [][(mv.state = "run" /\ mv.start = mv.target) =>
        /\ UNCHANGED <<dirA, dirPinA, stepPinA, shaftA, dirB, dirPinB, rawB>>
        /\ mv'.pulses = 0 /\ mv'.dirw = 0]_vars

\* C19: a direction assignment of the value the axis has writes the direction
\* pin not at all, one of the other value writes it exactly once.
C19_PinWrittenOnChangeOnly ==
    /\ mv.asg = "same" => mv.dirw = 0
    /\ mv.asg = "other" => mv.dirw = 1

\* A move_to has emitted its first step and is past the place of its check.
PastFirstStep ==
    /\ mv.first # "none"
    /\ \/ prog = "turretd"
       \/ prog \in {"server", "bench"} /\ cl.op = "to_angle" /\ pc \in {"ta_loop", "ta_done"}

\* C20: in a move_to that emitted a first step, the StepperFault warning is
\* signalled exactly when the angle read after that step equals the one read
\* before it; the move goes on after it, and returns only within the tolerance.
C20_FaultIffUnchanged ==
    PastFirstStep =>
        /\ mv.warned <=> (mv.first = "same")
        /\ mv.state = "done" => WithinTolerance

(***************************************************************************)
(* Turret.shoot: the order of its writes                                   *)
(***************************************************************************)
\* What the running (or just returned) shoot wrote to the firing servo, in order.
TriggerWrites == SelectSeq(sh.log, LAMBDA e : e.dev = "trigger")

\* The order of the writes of one shoot call: the relay is switched on first;
\* every write to the firing servo finds the relay on, the odd ones move it to
\* the extended position and the even ones to rest; the relay is switched off
\* only between cycles' end and the counter's write; and shots has its old
\* value at every write and until the call is at its last line.
ShootOrdered ==
    /\ \A k \in 1..Len(sh.log) :
          LET e == sh.log[k] IN
            /\ e.shots = sh.shots0
            /\ (k = 1) <=> (e.dev = "relay" /\ e.val = TRUE)
            /\ e.dev = "trigger" => e.relay
            /\ (e.dev = "relay" /\ e.val = FALSE) =>
                  /\ e.relay
                  /\ \A j \in 1..Len(sh.log) : sh.log[j].dev = "trigger" => j < k
                  /\ Len(TriggerWrites) % 2 = 0
            /\ e.dev = "shots" =>
                  /\ ~e.relay /\ k = Len(sh.log) /\ k > 1
                  /\ sh.log[k - 1] = [dev |-> "relay", val |-> FALSE, relay |-> TRUE,
                                      shots |-> sh.shots0]
                  /\ e.val = sh.shots0 + sh.n
    /\ \A k \in 1..Len(TriggerWrites) :
          TriggerWrites[k].val = IF k % 2 = 1 THEN TriggerFire ELSE TriggerRest
    /\ (prog = "turretd" /\ pc \in {"sh_on", "sh_fire", "sh_rest", "sh_off", "sh_inc"})
          => shots = sh.shots0
    /\ ShootReturned =>
          /\ Len(sh.log) = 3 + Len(TriggerWrites)
          /\ sh.log[Len(sh.log)].dev = "shots"
          /\ shots = sh.log[Len(sh.log)].val

\* C21: inside shoot(n) the relay is switched on before the first
\* trigger actuation and off after the last one; while it is on the firing
\* servo makes exactly n cycles, each one extended position followed by rest
\* position; shots keeps its old value during the whole sequence and is
\* increased only after the relay has been switched off.
C21_ShootOrdering ==
    /\ ShootOrdered
    /\ ShootReturned => (Len(TriggerWrites) = 2 * sh.n /\ shots >= sh.shots0)

(***************************************************************************)
(* Register reads and the select scope                                     *)
(***************************************************************************)
\* A select scope for port is in force: __enter__ wrote the port to the
\* multiplexer's register, __exit__ has not run yet, and the register holds it.
SelectInForce(port) == cl.touched /\ ~cl.exited /\ cl.port = port /\ muxReg = port

\* The next step of server/stepper.py reads the angle registers for a motor:
\* enc.angle in Stepper.angle (line 184) and in to_angle (lines 231, 236, 239, 244).
ServerAxisReads ==
    /\ prog \in {"bench", "server"} /\ cl.op \in {"angle", "to_angle"}
    /\ pc \in {"ctx_body", "ta_dir", "ta_step1", "ta_check", "ta_loop"}

\* The next step of turretd reads the angle registers for the base: self.angle
\* in the angle setter (stepper.py, lines 42-49) and turret.base_angle for a
\* status request (turretd.py, line 72), both through encoder.Encoder.angle.
TurretdAxisReads ==
    /\ prog = "turretd"
    /\ \/ pc \in {"A_dir", "A_loop"}
       \/ pc = "try_status" /\ Decodes(msg, "RequestStatus")

\* C22: every encoder register read made by the motion axis (the angle
\* accessor, each feedback read of move_to, the base read of a status request)
\* happens inside a select scope for the channel of the axis being read, with
\* the multiplexer's register holding that channel; no read is issued with a
\* different channel, or with no select at all, in force.
C22_ReadsInsideSelect ==
    /\ ServerAxisReads => SelectInForce(EncIdx(cl.m))
    /\ TurretdAxisReads => \E c \in Channels : SelectInForce(c)

============================================================================
